---- MODULE Spec2Model ----
(***************************************************************************)
(* State-machine model of the inventory / order / payment core of the      *)
(* femite backend (src/src/repository, src/src/services, src/src/routes).  *)
(*                                                                         *)
(* The database is the only shared state.  Every request handler is a      *)
(* process (an element of Calls) whose position and local variables live   *)
(* in calls[c].  One step of a handler is one SQL statement, or one        *)
(* transaction suffix that only writes (its writes become visible          *)
(* together at COMMIT, which is where the model applies them).  Handlers   *)
(* that open a transaction (stock_repository.rs) run at PostgreSQL's       *)
(* default READ COMMITTED level: a SELECT takes no lock and sees whatever  *)
(* was committed when it runs; now() is the transaction's start time.      *)
(* Handlers that call the pool directly (order_service.rs,                 *)
(* payment_service.rs) run every statement in its own transaction.         *)
(***************************************************************************)
EXTENDS Integers, Sequences, FiniteSets, TLC

(***************************************************************************)
(* Bounds of the model.                                                    *)
(***************************************************************************)
MaxCalls == 2          \* request handlers in flight at the same time
MaxRequests == 4       \* requests accepted in one behaviour
MaxTime == 2           \* the clock stops here
MaxTtl == 1            \* expires_in_minutes ranges over 1..MaxTtl
MaxQuantity == 2       \* largest quantity in a request
MaxStock == 2          \* largest on-hand stock set by a request
MaxReservations == 3   \* reservation rows ever inserted
MaxLogs == 3           \* inventory_logs rows ever inserted
MaxCartItems == 2      \* cart_items rows of one cart
MaxOrders == 2         \* orders rows ever inserted
MaxPayments == 2       \* payments rows ever inserted
MaxWebhooks == 2       \* payment_webhooks rows ever inserted

Calls == 1..MaxCalls
Users == {"u1", "u2"}
ProductIds == {"p1", "p2", "p3"}
None == << >>          \* Option::None
Some(x) == << x >>     \* Option::Some(x)
Unwrap(o) == o[1]

VARIABLES
    products,            \* products table: id -> row (exists = FALSE: no row)
    stock_reservations,  \* stock_reservations table: set of rows
    inventory_logs,      \* inventory_logs table, in insertion (created_at) order
    reservation_seq,     \* number of reservation rows inserted so far
    now,                 \* wall clock
    carts,               \* carts table: the users that own a cart row
    cart_items,          \* cart_items table: user -> rows of the user's cart
    orders,              \* orders table: sequence of rows, id = index
    order_items,         \* order_items table, in insertion order
    payments,            \* payments table: sequence of rows, id = index
    payment_webhooks,    \* payment_webhooks table, in insertion order
    calls,               \* request handlers: call -> position and locals
    requests             \* number of requests accepted so far

vars == << products, stock_reservations, inventory_logs, reservation_seq, now,
           carts, cart_items, orders, order_items, payments, payment_webhooks,
           calls, requests >>

inventoryVars == << stock_reservations, inventory_logs, reservation_seq >>
orderVars == << carts, cart_items, orders, order_items >>
paymentVars == << payments, payment_webhooks >>

Idle == [op |-> "idle", pc |-> "idle"]

IsIdle(c) == calls[c].op = "idle"

\* A new request takes the lowest free handler: handlers are interchangeable.
CanStart(c) ==
    /\ requests < MaxRequests
    /\ IsIdle(c)
    /\ \A d \in Calls : d < c => ~IsIdle(d)

\* A handler that has returned: the variant it returned and the payload.
Done(op, outcome, value) ==
    [op |-> op, pc |-> "done", outcome |-> outcome, value |-> value]

At(c, op, pc) == calls[c].op = op /\ calls[c].pc = pc

(***************************************************************************)
(* Pure helpers.                                                           *)
(***************************************************************************)
RECURSIVE SumQuantity(_)
SumQuantity(rows) ==
    IF rows = {} THEN 0
    ELSE LET r == CHOOSE x \in rows : TRUE
         IN r.quantity + SumQuantity(rows \ {r})

\* a join that forgets the expiry: every reservation of the product counts
LiveReservationsWithExpired(p, t) ==
    {r \in stock_reservations : r.product_id = p}

\* sr.expires_at > now() of the LEFT JOIN in the availability queries
LiveReservations(p, t) ==
    {r \in stock_reservations : r.product_id = p /\ r.expires_at > t}

\* SELECT (p.stock - COALESCE(SUM(sr.quantity), 0)) ... GROUP BY p.id, p.stock
AvailableStock(p, t) ==
    products[p].stock - SumQuantity(LiveReservations(p, t))

\* the availability query of create_reservation: no row when the product is
\* missing or p.track_inventory is false
ReservableStock(p, t) ==
    IF products[p].exists /\ products[p].track_inventory
    THEN Some(AvailableStock(p, t))
    ELSE None

\* get_available_stock: no track_inventory filter
get_available_stock(p) ==
    IF products[p].exists THEN Some(AvailableStock(p, now)) ELSE None

\* a log row with previous_stock and new_stock taken for each other
LogRowSwapped(p, change_type, quantity_change, previous_stock, new_stock, reference_id) ==
    [product_id |-> p, change_type |-> change_type,
     quantity_change |-> quantity_change, previous_stock |-> new_stock,
     new_stock |-> previous_stock, reference_id |-> reference_id]

\* the row log_inventory_change inserts
LogRow(p, change_type, quantity_change, previous_stock, new_stock, reference_id) ==
    [product_id |-> p, change_type |-> change_type,
     quantity_change |-> quantity_change, previous_stock |-> previous_stock,
     new_stock |-> new_stock, reference_id |-> reference_id]

\* a log_inventory_change that writes nothing
log_inventory_change_skipped(logs, row) == logs

log_inventory_change(logs, row) == Append(logs, row)

(***************************************************************************)
(* Initial state: a tracked product, an untracked product and an id with   *)
(* no product row; empty carts, no orders, no payments.                    *)
(***************************************************************************)
InitStock(p) == CASE p = "p1" -> 2 [] p = "p2" -> 1 [] OTHER -> 0

Price(p) == CASE p = "p1" -> 250 [] p = "p2" -> 199 [] OTHER -> 0

Init ==
    /\ products = [p \in ProductIds |->
                     [exists |-> p # "p3",
                      stock |-> InitStock(p),
                      price |-> Price(p),
                      track_inventory |-> (p = "p1")]]
    /\ stock_reservations = {}
    /\ inventory_logs = << >>
    /\ reservation_seq = 0
    /\ now = 0
    /\ carts = {}
    /\ cart_items = [u \in Users |-> << >>]
    /\ orders = << >>
    /\ order_items = << >>
    /\ payments = << >>
    /\ payment_webhooks = << >>
    /\ calls = [c \in Calls |-> Idle]
    /\ requests = 0

(***************************************************************************)
(* Environment: the clock, and a handler returning to its caller.          *)
(***************************************************************************)
Tick ==
    /\ now < MaxTime
    /\ now' = now + 1
    /\ UNCHANGED << products, inventoryVars, orderVars, paymentVars, calls >>
    /\ UNCHANGED requests

Return(c) ==
    /\ calls[c].pc = "done"
    /\ calls' = [calls EXCEPT ![c] = Idle]
    /\ UNCHANGED << products, inventoryVars, now, orderVars, paymentVars >>
    /\ UNCHANGED requests

(***************************************************************************)
(* StockRepository::create_reservation                                     *)
(***************************************************************************)
\* request.quantity is an i32 that nothing validates: a negative quantity
\* and the positive ones
ReserveQuantities == {0 - 1} \cup 1..MaxQuantity

\* BEGIN; SELECT available_stock; the two rollback branches return None
create_reservation_check(c, p, cart, q, ttl) ==
    /\ CanStart(c)
    /\ LET available_stock == ReservableStock(p, now)
       IN calls' = [calls EXCEPT ![c] =
                      IF available_stock = None \/ Unwrap(available_stock) < q
                      THEN Done("create_reservation", "none", 0)
                      ELSE [op |-> "create_reservation", pc |-> "insert",
                            product_id |-> p, cart_id |-> cart, quantity |-> q,
                            expires_in_minutes |-> ttl,
                            available |-> Unwrap(available_stock),
                            seen_seq |-> reservation_seq]]
    /\ UNCHANGED << products, inventoryVars, now, orderVars, paymentVars >>
    /\ requests' = requests + 1

\* INSERT INTO stock_reservations; log_inventory_change(Reserved); COMMIT
create_reservation_insert(c) ==
    /\ At(c, "create_reservation", "insert")
    /\ reservation_seq < MaxReservations
    /\ Len(inventory_logs) < MaxLogs
    /\ LET me == calls[c]
           id == reservation_seq + 1
       IN \/ /\ stock_reservations' = stock_reservations \cup
                   {[id |-> id, product_id |-> me.product_id,
                     cart_id |-> me.cart_id, quantity |-> me.quantity,
                     expires_at |-> now + me.expires_in_minutes]}
             /\ inventory_logs' = log_inventory_change(inventory_logs,
                   LogRow(me.product_id, "reserved", -me.quantity, 0, 0,
                          Some(me.cart_id)))
             /\ reservation_seq' = id
             /\ calls' = [calls EXCEPT ![c] =
                            [me EXCEPT !.pc = "done"]
                            @@ [outcome |-> "some", value |-> id]]
          \/ \* the INSERT, the log INSERT or the COMMIT fails: `?` drops tx,
             \* which rolls the transaction back
             /\ calls' = [calls EXCEPT ![c] =
                            Done("create_reservation", "database_error", 0)]
             /\ UNCHANGED << stock_reservations, inventory_logs, reservation_seq >>
    /\ UNCHANGED << products, now, orderVars, paymentVars >>
    /\ UNCHANGED requests

(***************************************************************************)
(* StockRepository::cancel_reservation                                     *)
(***************************************************************************)
\* BEGIN; SELECT ... WHERE id = $1; no row: ROLLBACK, false
cancel_reservation_select(c, id) ==
    /\ CanStart(c)
    /\ LET found == {r \in stock_reservations : r.id = id}
       IN calls' = [calls EXCEPT ![c] =
                      IF found = {}
                      THEN Done("cancel_reservation", "false", 0)
                      ELSE [op |-> "cancel_reservation", pc |-> "delete",
                            reservation_id |-> id,
                            res |-> CHOOSE r \in found : TRUE]]
    /\ UNCHANGED << products, inventoryVars, now, orderVars, paymentVars >>
    /\ requests' = requests + 1

\* DELETE ... WHERE id = $1; rows_affected > 0: log Unreserved, COMMIT, true
cancel_reservation_delete(c) ==
    /\ At(c, "cancel_reservation", "delete")
    /\ LET me == calls[c]
           deleted == {r \in stock_reservations : r.id = me.reservation_id}
       IN IF deleted # {}
          THEN /\ Len(inventory_logs) < MaxLogs
               /\ stock_reservations' = stock_reservations \ deleted
               /\ inventory_logs' = log_inventory_change(inventory_logs,
                     LogRow(me.res.product_id, "unreserved", me.res.quantity,
                            0, 0, Some(me.res.cart_id)))
               /\ calls' = [calls EXCEPT ![c] = Done("cancel_reservation", "true", 0)]
          ELSE /\ calls' = [calls EXCEPT ![c] = Done("cancel_reservation", "false", 0)]
               /\ UNCHANGED << stock_reservations, inventory_logs >>
    /\ UNCHANGED << products, reservation_seq, now, orderVars, paymentVars >>
    /\ UNCHANGED requests

(***************************************************************************)
(* StockRepository::cleanup_expired_reservations                           *)
(***************************************************************************)
\* BEGIN; SELECT ... WHERE expires_at <= now()
cleanup_expired_select(c) ==
    /\ CanStart(c)
    /\ calls' = [calls EXCEPT ![c] =
                   [op |-> "cleanup_expired_reservations", pc |-> "delete",
                    tx_now |-> now,
                    expired_reservations |->
                        {r \in stock_reservations : r.expires_at <= now}]]
    /\ UNCHANGED << products, inventoryVars, now, orderVars, paymentVars >>
    /\ requests' = requests + 1

RECURSIVE LogUnreserved(_, _)
LogUnreserved(logs, rows) ==
    IF rows = {} THEN logs
    ELSE LET r == CHOOSE x \in rows : \A y \in rows : x.id <= y.id
         IN LogUnreserved(
                log_inventory_change(logs,
                    LogRow(r.product_id, "unreserved", r.quantity, 0, 0, Some(r.cart_id))),
                rows \ {r})

\* DELETE ... WHERE expires_at <= now(); one log row per SELECTed row; COMMIT
cleanup_expired_delete(c) ==
    /\ At(c, "cleanup_expired_reservations", "delete")
    /\ LET me == calls[c]
           deleted == {r \in stock_reservations : r.expires_at <= me.tx_now}
       IN /\ Len(inventory_logs) + Cardinality(me.expired_reservations) <= MaxLogs
          /\ stock_reservations' = stock_reservations \ deleted
          /\ inventory_logs' = LogUnreserved(inventory_logs, me.expired_reservations)
          /\ calls' = [calls EXCEPT ![c] =
                         Done("cleanup_expired_reservations", "ok", Cardinality(deleted))]
    /\ UNCHANGED << products, reservation_seq, now, orderVars, paymentVars >>
    /\ UNCHANGED requests

(***************************************************************************)
(* StockRepository::update_stock, called by routes/inventory.rs            *)
(* update_stock with new_stock = request.quantity (not validated).         *)
(***************************************************************************)
StockRequests == (0 - 1)..MaxStock

\* BEGIN; SELECT stock FROM products WHERE id = $1; no row: ROLLBACK, false
update_stock_select(c, p, new_stock) ==
    /\ CanStart(c)
    /\ calls' = [calls EXCEPT ![c] =
                   IF products[p].exists
                   THEN [op |-> "update_stock", pc |-> "update",
                         product_id |-> p, new_stock |-> new_stock,
                         change_type |-> IF new_stock > 0 THEN "stock_in"
                                         ELSE "stock_out",
                         current |-> products[p].stock]
                   ELSE Done("update_stock", "false", 0)]
    /\ UNCHANGED << products, inventoryVars, now, orderVars, paymentVars >>
    /\ requests' = requests + 1

\* UPDATE products SET stock = $1; updated_rows > 0: log, COMMIT, true
update_stock_update(c) ==
    /\ At(c, "update_stock", "update")
    /\ LET me == calls[c]
           p == me.product_id
       IN IF products[p].exists
          THEN /\ Len(inventory_logs) < MaxLogs
               /\ products' = [products EXCEPT ![p].stock = me.new_stock]
               /\ inventory_logs' = log_inventory_change(inventory_logs,
                     LogRow(p, me.change_type, me.new_stock - me.current,
                            me.current, me.new_stock, None))
               /\ calls' = [calls EXCEPT ![c] = Done("update_stock", "true", 0)]
          ELSE /\ calls' = [calls EXCEPT ![c] = Done("update_stock", "false", 0)]
               /\ UNCHANGED << products, inventory_logs >>
    /\ UNCHANGED << stock_reservations, reservation_seq, now, orderVars,
                    paymentVars >>
    /\ UNCHANGED requests

\* the products and carts the inventory requests name: the tracked product
\* and an id with no product row; the caller's id serves as cart id
InventoryProducts == {"p1", "p3"}
InventoryCarts == {"u1"}

InventoryNext ==
    \/ Tick
    \/ \E c \in Calls : Return(c)
    \/ \E c \in Calls, p \in InventoryProducts, cart \in InventoryCarts,
          q \in ReserveQuantities, ttl \in 1..MaxTtl :
            create_reservation_check(c, p, cart, q, ttl)
    \/ \E c \in Calls : create_reservation_insert(c)
    \/ \E c \in Calls, id \in 1..MaxReservations : cancel_reservation_select(c, id)
    \/ \E c \in Calls : cancel_reservation_delete(c)
    \/ \E c \in Calls : cleanup_expired_select(c)
    \/ \E c \in Calls : cleanup_expired_delete(c)
    \/ \E c \in Calls, p \in InventoryProducts, s \in StockRequests :
            update_stock_select(c, p, s)
    \/ \E c \in Calls : update_stock_update(c)

SpecInventory == Init /\ [][InventoryNext]_vars

(***************************************************************************)
(* CartService::add_to_cart (the cart is an external collaborator of the   *)
(* core: get_or_create_cart and add_item are taken as one step; add_item   *)
(* does not look the product up).                                          *)
(***************************************************************************)
add_to_cart(u, p, q) ==
    /\ requests < MaxRequests
    /\ Len(cart_items[u]) < MaxCartItems
    /\ carts' = carts \cup {u}
    /\ cart_items' = [cart_items EXCEPT ![u] =
                        Append(@, [product_id |-> p, quantity |-> q])]
    /\ UNCHANGED << products, inventoryVars, now, orders, order_items,
                    paymentVars, calls >>
    /\ requests' = requests + 1

(***************************************************************************)
(* OrderService::create_order_from_cart.  No transaction: every repository *)
(* call is a statement of its own on the pool.                             *)
(***************************************************************************)
\* Decimal -> f64 (try_into().unwrap_or(0.0)) -> NUMERIC column.  Amounts are
\* integer cents; an f64 holds every integer below 2^53 and PostgreSQL keeps 15
\* significant digits of it, so the value of every amount the model can
\* represent survives the conversion.
DecimalToF64(cents) == cents

\* get_cart_by_user (no cart: Validation) and get_cart_items (empty:
\* Validation).  The cart row is never deleted, so reading it together with
\* the items is the same as reading it just before.
create_order_get_cart(c, u) ==
    /\ CanStart(c)
    /\ calls' = [calls EXCEPT ![c] =
                   IF u \notin carts
                   THEN Done("create_order_from_cart", "no_cart", 0)
                   ELSE IF cart_items[u] = << >>
                   THEN Done("create_order_from_cart", "empty_cart", 0)
                   ELSE [op |-> "create_order_from_cart", pc |-> "validate",
                         user_id |-> u, cart_items |-> cart_items[u],
                         idx |-> 1, total |-> 0, order_items |-> << >>]]
    /\ UNCHANGED << products, inventoryVars, now, orderVars, paymentVars >>
    /\ requests' = requests + 1

\* an item total that forgets the quantity
ItemTotalOfOneUnit(price, quantity) == price

\* item_total = item_price * Decimal::new(cart_item.quantity as i64, 0)
ItemTotal(price, quantity) == price * quantity

\* one iteration of "for cart_item in &cart_items": find_by_id, stock check,
\* total += item_total
create_order_validate(c) ==
    /\ At(c, "create_order_from_cart", "validate")
    /\ LET me == calls[c]
           cart_item == me.cart_items[me.idx]
           product == products[cart_item.product_id]
       IN calls' = [calls EXCEPT ![c] =
                      IF ~product.exists
                      THEN Done("create_order_from_cart", "product_not_found", 0)
                      ELSE IF product.stock < cart_item.quantity
                      THEN Done("create_order_from_cart", "insufficient_stock", 0)
                      ELSE [me EXCEPT
                              !.total = @ + ItemTotal(product.price, cart_item.quantity),
                              !.order_items = Append(@,
                                  [product_id |-> cart_item.product_id,
                                   quantity |-> cart_item.quantity,
                                   price |-> product.price]),
                              !.idx = @ + 1,
                              !.pc = IF me.idx = Len(me.cart_items)
                                     THEN "create_order" ELSE "validate"]]
    /\ UNCHANGED << products, inventoryVars, now, orderVars, paymentVars >>
    /\ UNCHANGED requests

\* OrderRepository::create_order: INSERT INTO orders ... 'pending_payment'
create_order_insert(c) ==
    /\ At(c, "create_order_from_cart", "create_order")
    /\ Len(orders) < MaxOrders
    /\ LET me == calls[c]
       IN \/ /\ orders' = Append(orders,
                    [user_id |-> me.user_id, total |-> DecimalToF64(me.total),
                     status |-> "pending_payment"])
             /\ calls' = [calls EXCEPT ![c] =
                            [me EXCEPT !.pc = "add_order_item", !.idx = 1]
                            @@ [order_id |-> Len(orders) + 1]]
          \/ \* the statement fails: map_err(AppError::Database)?
             /\ calls' = [calls EXCEPT ![c] =
                            Done("create_order_from_cart", "database_error", 0)]
             /\ UNCHANGED orders
    /\ UNCHANGED << products, inventoryVars, now, carts, cart_items,
                    order_items, paymentVars >>
    /\ UNCHANGED requests

\* one iteration of "for (cart_item, _product, item_price) in &order_items":
\* OrderRepository::add_order_item
create_order_add_item(c) ==
    /\ At(c, "create_order_from_cart", "add_order_item")
    /\ LET me == calls[c]
           item == me.order_items[me.idx]
       IN \/ /\ order_items' = Append(order_items,
                    [order_id |-> me.order_id, product_id |-> item.product_id,
                     quantity |-> item.quantity,
                     price |-> DecimalToF64(item.price)])
             /\ calls' = [calls EXCEPT ![c] =
                            [me EXCEPT !.idx = @ + 1,
                                       !.pc = IF me.idx = Len(me.order_items)
                                              THEN "clear_cart"
                                              ELSE "add_order_item"]]
          \/ \* the statement fails: map_err(AppError::Database)?
             /\ calls' = [calls EXCEPT ![c] =
                            Done("create_order_from_cart", "database_error",
                                 me.order_id)]
             /\ UNCHANGED order_items
    /\ UNCHANGED << products, inventoryVars, now, carts, cart_items, orders,
                    paymentVars >>
    /\ UNCHANGED requests

\* CartRepository::clear_cart: DELETE FROM cart_items WHERE cart_id = $1
create_order_clear_cart(c) ==
    /\ At(c, "create_order_from_cart", "clear_cart")
    /\ LET me == calls[c]
       IN \/ /\ cart_items' = [cart_items EXCEPT ![me.user_id] = << >>]
             /\ calls' = [calls EXCEPT ![c] =
                            [op |-> "create_order_from_cart", pc |-> "done",
                             outcome |-> "ok", value |-> me.order_id,
                             cart_items |-> me.cart_items]]
          \/ \* the statement fails: map_err(AppError::Database)?
             /\ calls' = [calls EXCEPT ![c] =
                            Done("create_order_from_cart", "database_error",
                                 me.order_id)]
             /\ UNCHANGED cart_items
    /\ UNCHANGED << products, inventoryVars, now, carts, orders, order_items,
                    paymentVars >>
    /\ UNCHANGED requests

(***************************************************************************)
(* OrderService::pay_order.  No transaction: every repository call is a    *)
(* statement of its own on the pool.                                       *)
(***************************************************************************)
\* OrderRepository::find_items: the rows of one order, as [product_id, quantity]
RECURSIVE find_items(_, _)
find_items(rows, order_id) ==
    IF rows = << >> THEN << >>
    ELSE IF Head(rows).order_id = order_id
         THEN << [product_id |-> Head(rows).product_id,
                  quantity |-> Head(rows).quantity] >>
              \o find_items(Tail(rows), order_id)
         ELSE find_items(Tail(rows), order_id)

\* a lookup that forgets the owner: the order whoever asks
find_by_user_any_owner(u, order_id) ==
    IF order_id \in 1..Len(orders) THEN Some(orders[order_id]) ELSE None

\* find_by_user(user_id) ... .find(|o| o.id == order_id): the order, if the
\* user owns it
find_by_user(u, order_id) ==
    IF order_id \in 1..Len(orders) /\ orders[order_id].user_id = u
    THEN Some(orders[order_id])
    ELSE None

\* what pay_order returns, with the arguments of the call and (history) the
\* number of order items whose stock the call has written
PayDone(u, order_id, outcome, decremented) ==
    [op |-> "pay_order", pc |-> "done", outcome |-> outcome,
     value |-> order_id, user_id |-> u, order_id |-> order_id,
     decremented |-> decremented]

\* find_by_user; no such order of this user, or status != "pending_payment":
\* Ok(None)
pay_order_find(c, u, order_id) ==
    /\ CanStart(c)
    /\ LET order == find_by_user(u, order_id)
       IN calls' = [calls EXCEPT ![c] =
                      IF order = None \/ Unwrap(order).status # "pending_payment"
                      THEN PayDone(u, order_id, "none", 0)
                      ELSE [op |-> "pay_order", pc |-> "find_items",
                            user_id |-> u, order_id |-> order_id,
                            items |-> << >>, idx |-> 1, stock |-> 0]]
    /\ UNCHANGED << products, inventoryVars, now, orderVars, paymentVars >>
    /\ requests' = requests + 1

\* let items = self.repo.find_items(order.id)
pay_order_find_items(c) ==
    /\ At(c, "pay_order", "find_items")
    /\ LET me == calls[c]
           items == find_items(order_items, me.order_id)
       IN calls' = [calls EXCEPT ![c] =
                      [me EXCEPT !.items = items,
                                 !.pc = IF items = << >> THEN "update_status"
                                        ELSE "check_stock"]]
    /\ UNCHANGED << products, inventoryVars, now, orderVars, paymentVars >>
    /\ UNCHANGED requests

\* one iteration of the "check stock" loop: find_by_id; product.stock <
\* item.quantity or no product: Ok(None)
pay_order_check_stock(c) ==
    /\ At(c, "pay_order", "check_stock")
    /\ LET me == calls[c]
           item == me.items[me.idx]
           product == products[item.product_id]
       IN calls' = [calls EXCEPT ![c] =
                      IF ~product.exists \/ product.stock < item.quantity
                      THEN PayDone(me.user_id, me.order_id, "none", 0)
                      ELSE IF me.idx = Len(me.items)
                      THEN [me EXCEPT !.idx = 1, !.pc = "reduce_find"]
                      ELSE [me EXCEPT !.idx = @ + 1]]
    /\ UNCHANGED << products, inventoryVars, now, orderVars, paymentVars >>
    /\ UNCHANGED requests

\* where the "reduce stock" loop goes after item idx
AfterReduce(me) ==
    IF me.idx = Len(me.items)
    THEN [me EXCEPT !.pc = "update_status"]
    ELSE [me EXCEPT !.idx = @ + 1, !.pc = "reduce_find"]

\* "reduce stock" loop, first statement: find_by_id (no product: next item)
pay_order_reduce_find(c) ==
    /\ At(c, "pay_order", "reduce_find")
    /\ LET me == calls[c]
           product == products[me.items[me.idx].product_id]
       IN calls' = [calls EXCEPT ![c] =
                      IF product.exists
                      THEN [me EXCEPT !.stock = product.stock,
                                      !.pc = "reduce_update"]
                      ELSE AfterReduce(me)]
    /\ UNCHANGED << products, inventoryVars, now, orderVars, paymentVars >>
    /\ UNCHANGED requests

\* ProductRepository::update_stock: UPDATE products SET stock = $1 WHERE id = $2
ProductRepository_update_stock(id, stock) ==
    [products EXCEPT ![id].stock = stock]

\* "reduce stock" loop, second statement:
\* product_repo.update_stock(product.id, product.stock - item.quantity)
pay_order_reduce_update(c) ==
    /\ At(c, "pay_order", "reduce_update")
    /\ LET me == calls[c]
           item == me.items[me.idx]
       IN \/ /\ products[item.product_id].exists
             /\ products' = ProductRepository_update_stock(item.product_id,
                                me.stock - item.quantity)
             /\ calls' = [calls EXCEPT ![c] = AfterReduce(me)]
          \/ \* the statement fails (fetch_one finds no row, or sqlx::Error): ?
             /\ calls' = [calls EXCEPT ![c] =
                            PayDone(me.user_id, me.order_id, "database_error",
                                    me.idx - 1)]
             /\ UNCHANGED products
    /\ UNCHANGED << inventoryVars, now, orderVars, paymentVars >>
    /\ UNCHANGED requests

\* an update_status whose UPDATE matches no row
update_status_no_row(order_id, status) == orders

\* OrderRepository::update_status: UPDATE orders SET status = $1 WHERE id = $2
update_status(order_id, status) ==
    [orders EXCEPT ![order_id].status = status]

\* self.repo.update_status(order_id, Paid); Ok(Some(updated))
pay_order_update_status(c) ==
    /\ At(c, "pay_order", "update_status")
    /\ LET me == calls[c]
       IN \/ /\ orders' = update_status(me.order_id, "paid")
             /\ calls' = [calls EXCEPT ![c] =
                            PayDone(me.user_id, me.order_id, "some",
                                    Len(me.items))]
          \/ \* the statement fails: ?
             /\ calls' = [calls EXCEPT ![c] =
                            PayDone(me.user_id, me.order_id, "database_error",
                                    Len(me.items))]
             /\ UNCHANGED orders
    /\ UNCHANGED << products, inventoryVars, now, carts, cart_items,
                    order_items, paymentVars >>
    /\ UNCHANGED requests

\* the requests of the order flow: u1 shops, u1 and u2 try to pay
CartUsers == {"u1"}
OrderIds == 1..MaxOrders

OrderNext ==
    \/ \E c \in Calls : Return(c)
    \/ \E u \in CartUsers, p \in ProductIds, q \in 1..MaxQuantity :
            add_to_cart(u, p, q)
    \/ \E c \in Calls, u \in Users : create_order_get_cart(c, u)
    \/ \E c \in Calls : create_order_validate(c)
    \/ \E c \in Calls : create_order_insert(c)
    \/ \E c \in Calls : create_order_add_item(c)
    \/ \E c \in Calls : create_order_clear_cart(c)
    \/ \E c \in Calls, u \in Users, o \in OrderIds : pay_order_find(c, u, o)
    \/ \E c \in Calls : pay_order_find_items(c)
    \/ \E c \in Calls : pay_order_check_stock(c)
    \/ \E c \in Calls : pay_order_reduce_find(c)
    \/ \E c \in Calls : pay_order_reduce_update(c)
    \/ \E c \in Calls : pay_order_update_status(c)
    \/ \E c \in Calls, s \in StockRequests : update_stock_select(c, "p1", s)
    \/ \E c \in Calls : update_stock_update(c)

SpecOrder == Init /\ [][OrderNext]_vars

(***************************************************************************)
(* PaymentService::create_payment_intent.  No transaction; the gateway is  *)
(* called between the read of the order and the two writes.                *)
(***************************************************************************)
\* order_repo.get_by_id; OrderNotFound; InvalidOrderStatus; InvalidAmount
\* (request.amount * 100 does not fit an i64)
create_payment_intent_validate(c, order_id, amount_fits) ==
    /\ CanStart(c)
    /\ calls' = [calls EXCEPT ![c] =
                   IF order_id \notin 1..Len(orders)
                   THEN Done("create_payment_intent", "order_not_found", order_id)
                   ELSE IF orders[order_id].status # "pending_payment"
                   THEN Done("create_payment_intent", "invalid_order_status",
                             order_id)
                   ELSE IF ~amount_fits
                   THEN Done("create_payment_intent", "invalid_amount", order_id)
                   ELSE [op |-> "create_payment_intent", pc |-> "stripe",
                         order_id |-> order_id]]
    /\ UNCHANGED << products, inventoryVars, now, orderVars, paymentVars >>
    /\ requests' = requests + 1

\* POST https://api.stripe.com/v1/payment_intents
create_payment_intent_stripe(c) ==
    /\ At(c, "create_payment_intent", "stripe")
    /\ \/ calls' = [calls EXCEPT ![c].pc = "create_payment"]
       \/ \* send fails, a non-success status, or a body without id/client_secret
          calls' = [calls EXCEPT ![c] =
                      Done("create_payment_intent", "stripe_api_error",
                           calls[c].order_id)]
    /\ UNCHANGED << products, inventoryVars, now, orderVars, paymentVars >>
    /\ UNCHANGED requests

\* PaymentRepository::create: INSERT INTO payments ... 'pending'.  The intent
\* id the gateway issued is unique; the model names it by the row it lands in.
create_payment_intent_create(c) ==
    /\ At(c, "create_payment_intent", "create_payment")
    /\ Len(payments) < MaxPayments
    /\ LET me == calls[c]
       IN \/ /\ payments' = Append(payments,
                    [order_id |-> me.order_id,
                     stripe_payment_intent_id |-> Len(payments) + 1,
                     status |-> "pending"])
             /\ calls' = [calls EXCEPT ![c].pc = "update_status"]
          \/ \* the statement fails: map_err(PaymentError::Database)?
             /\ calls' = [calls EXCEPT ![c] =
                            Done("create_payment_intent", "database_error",
                                 me.order_id)]
             /\ UNCHANGED payments
    /\ UNCHANGED << products, inventoryVars, now, orderVars, payment_webhooks >>
    /\ UNCHANGED requests

\* order_repo.update_status(order_id, PaymentProcessing)
create_payment_intent_update_status(c) ==
    /\ At(c, "create_payment_intent", "update_status")
    /\ LET me == calls[c]
       IN \/ /\ orders' = update_status(me.order_id, "payment_processing")
             /\ calls' = [calls EXCEPT ![c] =
                            Done("create_payment_intent", "ok", me.order_id)]
          \/ \* the statement fails: map_err(PaymentError::Database)?
             /\ calls' = [calls EXCEPT ![c] =
                            Done("create_payment_intent", "database_error",
                                 me.order_id)]
             /\ UNCHANGED orders
    /\ UNCHANGED << products, inventoryVars, now, carts, cart_items,
                    order_items, paymentVars >>
    /\ UNCHANGED requests

(***************************************************************************)
(* routes/payment.rs handle_stripe_webhook with                            *)
(* PaymentService::handle_payment_succeeded / handle_payment_failed.       *)
(***************************************************************************)
EventTypes == {"payment_intent.succeeded", "payment_intent.payment_failed",
               "charge.refunded"}

\* The gateway gives every event one id and repeats the event unchanged when
\* it delivers it again: the id stands for the type and the intent.
StripeEvent(type, intent) ==
    [id |-> << type, intent >>, type |-> type, intent |-> intent]

\* payment_webhooks.stripe_event_id is the dedupe key (UNIQUE): the INSERT of
\* create_webhook_record fails on an id that is already stored
StripeEventIdTaken(event_id) ==
    \E i \in 1..Len(payment_webhooks) :
        payment_webhooks[i].stripe_event_id = event_id

\* PaymentRepository::create_webhook_record
create_webhook_record(event) ==
    Append(payment_webhooks,
           [stripe_event_id |-> event.id, event_type |-> event.type,
            processed |-> FALSE, error_message |-> None])

\* what the handler answers, with the event it was handed (redelivery: the
\* event id was already stored when the delivery arrived; error: the service
\* returned Err, which the route only logs)
WebhookDone(me, outcome) ==
    [op |-> "handle_stripe_webhook", pc |-> "done", outcome |-> outcome,
     value |-> 0, event |-> me.event, redelivery |-> me.redelivery,
     error |-> me.error]

\* serde_json::from_str fails: 400, nothing stored
handle_stripe_webhook_invalid(c) ==
    /\ CanStart(c)
    /\ calls' = [calls EXCEPT ![c] =
                   Done("handle_stripe_webhook", "bad_request", 0)]
    /\ UNCHANGED << products, inventoryVars, now, orderVars, paymentVars >>
    /\ requests' = requests + 1

\* create_webhook_record; Err: 500; then the match on event_type
handle_stripe_webhook_store(c, event) ==
    /\ CanStart(c)
    /\ StripeEventIdTaken(event.id) \/ Len(payment_webhooks) < MaxWebhooks
    /\ LET me == [op |-> "handle_stripe_webhook", pc |-> "update_payment",
                  event |-> event, redelivery |-> StripeEventIdTaken(event.id),
                  error |-> FALSE]
       IN IF StripeEventIdTaken(event.id)
          THEN /\ calls' = [calls EXCEPT ![c] = WebhookDone(me, "store_failed")]
               /\ UNCHANGED payment_webhooks
          ELSE /\ payment_webhooks' = create_webhook_record(event)
               /\ calls' = [calls EXCEPT ![c] =
                              IF event.type \in {"payment_intent.succeeded",
                                                 "payment_intent.payment_failed"}
                              THEN me
                              ELSE WebhookDone(me, "received")]
    /\ UNCHANGED << products, inventoryVars, now, orderVars, payments >>
    /\ requests' = requests + 1

\* the status handle_payment_succeeded / handle_payment_failed writes
PaymentStatusFor(type) ==
    IF type = "payment_intent.succeeded" THEN "succeeded" ELSE "failed"

\* a failed notification that leaves the order where create_payment_intent
\* put it
OrderStatusForKeepsProcessing(type) ==
    IF type = "payment_intent.succeeded" THEN "paid" ELSE "payment_processing"

OrderStatusFor(type) ==
    IF type = "payment_intent.succeeded" THEN "paid" ELSE "pending_payment"

\* PaymentRepository::update_status_by_stripe_id: UPDATE payments SET status
\* WHERE stripe_payment_intent_id = $3 RETURNING ...
update_status_by_stripe_id(intent, status) ==
    [i \in 1..Len(payments) |->
        IF payments[i].stripe_payment_intent_id = intent
        THEN [payments[i] EXCEPT !.status = status]
        ELSE payments[i]]

\* handle_payment_succeeded / handle_payment_failed, first statement
handle_payment_update_payment(c) ==
    /\ At(c, "handle_stripe_webhook", "update_payment")
    /\ LET me == calls[c]
           hit == {i \in 1..Len(payments) :
                     payments[i].stripe_payment_intent_id = me.event.intent}
       IN \/ /\ payments' = update_status_by_stripe_id(me.event.intent,
                                PaymentStatusFor(me.event.type))
             /\ calls' = [calls EXCEPT ![c] =
                            IF hit = {}
                            THEN WebhookDone(me, "received")
                            ELSE [me EXCEPT !.pc = "update_order"]
                                 @@ [order_id |->
                                       payments[CHOOSE i \in hit : TRUE].order_id]]
          \/ \* the statement fails: tracing::error!, still 200
             /\ calls' = [calls EXCEPT ![c] =
                            WebhookDone([me EXCEPT !.error = TRUE], "received")]
             /\ UNCHANGED payments
    /\ UNCHANGED << products, inventoryVars, now, orderVars, payment_webhooks >>
    /\ UNCHANGED requests

\* handle_payment_succeeded / handle_payment_failed, second statement:
\* order_repo.update_status(payment.order_id, Paid / PendingPayment)
handle_payment_update_order(c) ==
    /\ At(c, "handle_stripe_webhook", "update_order")
    /\ LET me == calls[c]
       IN \/ /\ orders' = update_status(me.order_id, OrderStatusFor(me.event.type))
             /\ calls' = [calls EXCEPT ![c] = WebhookDone(me, "received")]
          \/ \* the statement fails: tracing::error!, still 200
             /\ calls' = [calls EXCEPT ![c] =
                            WebhookDone([me EXCEPT !.error = TRUE], "received")]
             /\ UNCHANGED orders
    /\ UNCHANGED << products, inventoryVars, now, carts, cart_items,
                    order_items, paymentVars >>
    /\ UNCHANGED requests

(***************************************************************************)
(* PaymentService::refund_payment.  No transaction; the gateway is called  *)
(* between the read of the payment and the two writes.                     *)
(***************************************************************************)
PaymentIds == 1..MaxPayments

\* payment_repo.get_by_id; no row: PaymentNotFound
refund_payment_get(c, payment_id) ==
    /\ CanStart(c)
    /\ calls' = [calls EXCEPT ![c] =
                   IF payment_id \notin 1..Len(payments)
                   THEN Done("refund_payment", "payment_not_found", payment_id)
                   ELSE [op |-> "refund_payment", pc |-> "stripe",
                         payment_id |-> payment_id,
                         order_id |-> payments[payment_id].order_id]]
    /\ UNCHANGED << products, inventoryVars, now, orderVars, paymentVars >>
    /\ requests' = requests + 1

\* POST https://api.stripe.com/v1/refunds
refund_payment_stripe(c) ==
    /\ At(c, "refund_payment", "stripe")
    /\ \/ calls' = [calls EXCEPT ![c].pc = "update_payment"]
       \/ \* send fails or a non-success status
          calls' = [calls EXCEPT ![c] =
                      Done("refund_payment", "stripe_api_error",
                           calls[c].payment_id)]
    /\ UNCHANGED << products, inventoryVars, now, orderVars, paymentVars >>
    /\ UNCHANGED requests

\* a refund that records the payment as failed
PaymentRepository_update_status_failed(id, status) ==
    [payments EXCEPT ![id].status = "failed"]

\* PaymentRepository::update_status: UPDATE payments SET status = $1 WHERE id = $3
PaymentRepository_update_status(id, status) ==
    [payments EXCEPT ![id].status = status]

\* payment_repo.update_status(payment_id, Canceled)
refund_payment_update_payment(c) ==
    /\ At(c, "refund_payment", "update_payment")
    /\ LET me == calls[c]
       IN \/ /\ payments' = PaymentRepository_update_status(me.payment_id,
                                                            "canceled")
             /\ calls' = [calls EXCEPT ![c].pc = "update_order"]
          \/ \* the statement fails: map_err(PaymentError::Database)?
             /\ calls' = [calls EXCEPT ![c] =
                            Done("refund_payment", "database_error",
                                 me.payment_id)]
             /\ UNCHANGED payments
    /\ UNCHANGED << products, inventoryVars, now, orderVars, payment_webhooks >>
    /\ UNCHANGED requests

\* order_repo.update_status(payment.order_id, Refunded)
refund_payment_update_order(c) ==
    /\ At(c, "refund_payment", "update_order")
    /\ LET me == calls[c]
       IN \/ /\ orders' = update_status(me.order_id, "refunded")
             /\ calls' = [calls EXCEPT ![c] =
                            [op |-> "refund_payment", pc |-> "done",
                             outcome |-> "ok", value |-> me.payment_id,
                             order_id |-> me.order_id]]
          \/ \* the statement fails: map_err(PaymentError::Database)?
             /\ calls' = [calls EXCEPT ![c] =
                            Done("refund_payment", "database_error",
                                 me.payment_id)]
             /\ UNCHANGED orders
    /\ UNCHANGED << products, inventoryVars, now, carts, cart_items,
                    order_items, paymentVars >>
    /\ UNCHANGED requests

(***************************************************************************)
(* routes/order.rs update_status with OrderService::update_order_status:   *)
(* the admin's status update.  dto.status is a String and goes to the      *)
(* UPDATE as it came.                                                      *)
(***************************************************************************)
\* the statuses the admin sends: one of the enumeration, one that is not
StatusRequests == {"shipped", "archived"}

\* require_admin (else Unauthorized); repo.update_status (fetch_one:
\* RowNotFound when no order has the id)
update_order_status(c, is_admin, order_id, status) ==
    /\ CanStart(c)
    /\ IF is_admin /\ order_id \in 1..Len(orders)
       THEN /\ orders' = update_status(order_id, status)
            /\ calls' = [calls EXCEPT ![c] =
                           Done("update_order_status", "ok", order_id)]
       ELSE /\ calls' = [calls EXCEPT ![c] =
                           Done("update_order_status",
                                IF is_admin THEN "database_error"
                                ELSE "unauthorized",
                                order_id)]
            /\ UNCHANGED orders
    /\ UNCHANGED << products, inventoryVars, now, carts, cart_items,
                    order_items, paymentVars >>
    /\ requests' = requests + 1

(***************************************************************************)
(* The payment flow starts from a state the order flow reaches: u1 has     *)
(* checked out a cart holding one unit of p1.                              *)
(***************************************************************************)
InitPayment ==
    /\ products = [p \in ProductIds |->
                     [exists |-> p # "p3",
                      stock |-> InitStock(p),
                      price |-> Price(p),
                      track_inventory |-> (p = "p1")]]
    /\ stock_reservations = {}
    /\ inventory_logs = << >>
    /\ reservation_seq = 0
    /\ now = 0
    /\ carts = {"u1"}
    /\ cart_items = [u \in Users |-> << >>]
    /\ orders = << [user_id |-> "u1", total |-> Price("p1"),
                    status |-> "pending_payment"] >>
    /\ order_items = << [order_id |-> 1, product_id |-> "p1", quantity |-> 1,
                         price |-> Price("p1")] >>
    /\ payments = << >>
    /\ payment_webhooks = << >>
    /\ calls = [c \in Calls |-> Idle]
    /\ requests = 0

\* the intents the gateway reports on: those of the payments, and one more
Intents == 1..(MaxPayments + 1)

PaymentNext ==
    \/ \E c \in Calls : Return(c)
    \/ \E c \in Calls, o \in OrderIds, fits \in BOOLEAN :
            create_payment_intent_validate(c, o, fits)
    \/ \E c \in Calls : create_payment_intent_stripe(c)
    \/ \E c \in Calls : create_payment_intent_create(c)
    \/ \E c \in Calls : create_payment_intent_update_status(c)
    \/ \E c \in Calls : handle_stripe_webhook_invalid(c)
    \/ \E c \in Calls, type \in EventTypes, intent \in Intents :
            handle_stripe_webhook_store(c, StripeEvent(type, intent))
    \/ \E c \in Calls : handle_payment_update_payment(c)
    \/ \E c \in Calls : handle_payment_update_order(c)
    \/ \E c \in Calls, id \in PaymentIds : refund_payment_get(c, id)
    \/ \E c \in Calls : refund_payment_stripe(c)
    \/ \E c \in Calls : refund_payment_update_payment(c)
    \/ \E c \in Calls : refund_payment_update_order(c)
    \/ \E c \in Calls, is_admin \in BOOLEAN, o \in OrderIds,
          status \in StatusRequests :
            update_order_status(c, is_admin, o, status)

SpecPayment == InitPayment /\ [][PaymentNext]_vars

(***************************************************************************)
(* Properties of the inventory core (SpecInventory).                       *)
(***************************************************************************)
Tracked(p) == products[p].exists /\ products[p].track_inventory

FinishedWith(c, op, outcome) ==
    /\ calls[c].op = op
    /\ calls[c].pc = "done"
    /\ calls[c].outcome = outcome

\* C1: for every tracked product the quantities of its live reservations sum
\* to at most its on-hand stock, i.e. its available stock is never negative.
C1_NoOversell ==
    \A p \in ProductIds :
        Tracked(p) => SumQuantity(LiveReservations(p, now)) <= products[p].stock

\* Two finished create_reservation calls overlapped: each inserted its row
\* after the other had read the availability.
Overlapped(c, d) ==
    /\ calls[c].value > calls[d].seen_seq
    /\ calls[d].value > calls[c].seen_seq

\* C2: when two create_reservation calls on one product run concurrently
\* against the same availability and both succeed, their quantities together
\* fit into that availability (otherwise at most one of them succeeds).
C2_ConcurrentReservesFit ==
    \A c, d \in Calls :
        (/\ c # d
         /\ FinishedWith(c, "create_reservation", "some")
         /\ FinishedWith(d, "create_reservation", "some")
         /\ calls[c].product_id = calls[d].product_id
         /\ calls[c].available = calls[d].available
         /\ Overlapped(c, d))
        => calls[c].quantity + calls[d].quantity <= calls[c].available

\* the unreserved rows of the inventory log
UnreservedLogs ==
    SelectSeq(inventory_logs, LAMBDA r : r.change_type = "unreserved")

\* the number of reservation rows inserted so far and no longer in the table
RemovedReservations == reservation_seq - Cardinality(stock_reservations)

\* C11: when a cancel has deleted its reservation, every reservation removed
\* so far (by this cancel, a racing cancel or a racing cleanup_expired) is
\* logged by exactly one unreserved row, and that row's quantity_change is
\* the quantity a reserved row recorded.
C11_CancelLoggedOnce ==
    \A c \in Calls :
        FinishedWith(c, "cancel_reservation", "true")
        => /\ Len(UnreservedLogs) = RemovedReservations
           /\ \A k \in 1..Len(UnreservedLogs) :
                  \E j \in 1..Len(inventory_logs) :
                      /\ inventory_logs[j].change_type = "reserved"
                      /\ inventory_logs[j].quantity_change
                             = 0 - UnreservedLogs[k].quantity_change

\* C17: a create_reservation that succeeds adds exactly one reservation row
\* (its product, cart and quantity, expires_at = now + ttl) and exactly one
\* log row (reserved, quantity_change = -quantity, previous_stock = new_stock
\* = 0); every other step of a create_reservation, a rejection or a failure
\* included, adds neither; no step of it changes a product.
C17_ReserveStep ==
    \A c \in Calls :
        (calls'[c] # calls[c] /\ calls'[c].op = "create_reservation")
        => /\ products' = products
           /\ IF calls'[c].pc = "done" /\ calls'[c].outcome = "some"
              THEN LET me == calls[c]
                       new == stock_reservations' \ stock_reservations
                   IN /\ stock_reservations \subseteq stock_reservations'
                      /\ Cardinality(new) = 1
                      /\ \A r \in new :
                             /\ r.id = calls'[c].value
                             /\ r.product_id = me.product_id
                             /\ r.cart_id = me.cart_id
                             /\ r.quantity = me.quantity
                             /\ r.expires_at = now + me.expires_in_minutes
                      /\ inventory_logs' = Append(inventory_logs,
                             [product_id |-> me.product_id,
                              change_type |-> "reserved",
                              quantity_change |-> 0 - me.quantity,
                              previous_stock |-> 0, new_stock |-> 0,
                              reference_id |-> Some(me.cart_id)])
              ELSE /\ stock_reservations' = stock_reservations
                   /\ inventory_logs' = inventory_logs

C17_ReserveAllOrNothing == [][C17_ReserveStep]_vars

\* C17 happens: a create_reservation has succeeded, its row is in the table
\* and the last log row is its reserved row
C17_Witness ==
    \E c \in Calls :
        /\ FinishedWith(c, "create_reservation", "some")
        /\ \E r \in stock_reservations : r.id = calls[c].value
        /\ inventory_logs # << >>
        /\ inventory_logs[Len(inventory_logs)].change_type = "reserved"
        /\ inventory_logs[Len(inventory_logs)].quantity_change
               = 0 - calls[c].quantity

\* available_stock as the contract defines it: on-hand stock minus the
\* quantities of the product's reservations that expire in the future
ContractAvailableStock(p) ==
    products[p].stock
    - SumQuantity({r \in stock_reservations :
                      r.product_id = p /\ r.expires_at > now})

\* C18: get_available_stock is the contract's available_stock (nothing for a
\* product that does not exist), and a create_reservation of quantity q on a
\* tracked product goes on to insert exactly when q <= available_stock and is
\* turned down otherwise.
C18_ReserveStep ==
    /\ \A p \in ProductIds :
           get_available_stock(p) = IF products[p].exists
                                    THEN Some(ContractAvailableStock(p))
                                    ELSE None
    /\ \A c \in Calls, p \in InventoryProducts, cart \in InventoryCarts,
          q \in ReserveQuantities, ttl \in 1..MaxTtl :
           (create_reservation_check(c, p, cart, q, ttl) /\ Tracked(p))
           => /\ q <= ContractAvailableStock(p) <=> calls'[c].pc = "insert"
              /\ q > ContractAvailableStock(p)
                 <=> (calls'[c].pc = "done" /\ calls'[c].outcome = "none")

C18_ReserveIffAvailable == [][C18_ReserveStep]_vars

\* C18 happens: the stock was never set, a reservation made earlier has
\* expired and is still in the table, and a create_reservation of exactly
\* the available stock, which is the whole stock, has succeeded
C18_Witness ==
    \E c \in Calls :
        /\ FinishedWith(c, "create_reservation", "some")
        /\ calls[c].quantity = calls[c].available
        /\ calls[c].available = products[calls[c].product_id].stock
        /\ \A k \in 1..Len(inventory_logs) :
               inventory_logs[k].change_type = "reserved"
        /\ \E r \in stock_reservations :
              /\ r.product_id = calls[c].product_id
              /\ r.id <= calls[c].seen_seq

\* C19: the step in which cleanup_expired deletes and logs removes exactly
\* the reservations with expires_at <= its now, returns their number, and
\* appends exactly that many log rows, all unreserved.
C19_CleanupStep ==
    \A c \in Calls :
        (/\ At(c, "cleanup_expired_reservations", "delete")
         /\ calls'[c].pc = "done")
        => LET removed == stock_reservations \ stock_reservations'
           IN /\ stock_reservations' \subseteq stock_reservations
              /\ removed = {r \in stock_reservations :
                               r.expires_at <= calls[c].tx_now}
              /\ calls'[c].value = Cardinality(removed)
              /\ Len(inventory_logs') = Len(inventory_logs) + Cardinality(removed)
              /\ \A k \in (Len(inventory_logs) + 1)..Len(inventory_logs') :
                     inventory_logs'[k].change_type = "unreserved"

C19_CleanupAgrees == [][C19_CleanupStep]_vars

\* C20: update_stock on an existing product reads the stock (nothing
\* changes yet), then sets the stock to new_stock and appends exactly one
\* log row with previous_stock = the stock it read when the call began,
\* new_stock, and quantity_change = new_stock - previous_stock, and returns
\* true; on a product that does not exist it returns false and changes no
\* product and no log row.
C20_SetStockStep ==
    \A c \in Calls :
        /\ \A p \in InventoryProducts, s \in StockRequests :
               update_stock_select(c, p, s)
               => /\ products' = products
                  /\ inventory_logs' = inventory_logs
                  /\ IF products[p].exists
                     THEN /\ calls'[c].pc = "update"
                          /\ calls'[c].product_id = p
                          /\ calls'[c].new_stock = s
                          /\ calls'[c].current = products[p].stock
                     ELSE /\ calls'[c].pc = "done"
                          /\ calls'[c].outcome = "false"
        /\ (At(c, "update_stock", "update") /\ calls'[c] # calls[c])
           => LET me == calls[c]
              IN /\ products' = [products EXCEPT
                                   ![me.product_id].stock = me.new_stock]
                 /\ Len(inventory_logs') = Len(inventory_logs) + 1
                 /\ SubSeq(inventory_logs', 1, Len(inventory_logs))
                        = inventory_logs
                 /\ LET row == inventory_logs'[Len(inventory_logs')]
                    IN /\ row.product_id = me.product_id
                       /\ row.previous_stock = me.current
                       /\ row.new_stock = me.new_stock
                       /\ row.quantity_change = me.new_stock - me.current
                 /\ calls'[c].pc = "done"
                 /\ calls'[c].outcome = "true"

C20_SetStock == [][C20_SetStockStep]_vars

\* C20 happens: an update_stock that changed the stock has returned true,
\* the product has the new stock and the last log row records the change
C20_Witness ==
    \E c \in Calls :
        /\ FinishedWith(c, "update_stock", "true")
        /\ inventory_logs # << >>
        /\ LET row == inventory_logs[Len(inventory_logs)]
           IN /\ row.change_type \in {"stock_in", "stock_out"}
              /\ row.previous_stock # row.new_stock
              /\ row.quantity_change = row.new_stock - row.previous_stock
              /\ products[row.product_id].stock = row.new_stock

\* the log rows StockRepository::update_stock wrote for a product, in order
SetStockLogs(p) ==
    SelectSeq(inventory_logs,
              LAMBDA r : r.product_id = p
                         /\ r.change_type \in {"stock_in", "stock_out"})

RECURSIVE SumQuantityChange(_)
SumQuantityChange(logs) ==
    IF logs = << >> THEN 0
    ELSE Head(logs).quantity_change + SumQuantityChange(Tail(logs))

\* C21: whatever update_stock calls have run on a product, its on-hand stock
\* is the initial stock plus the sum of the quantity_change of the log rows
\* those calls wrote, and replaying the rows in order from the initial stock
\* gives, after each row, the new_stock that row recorded.
C21_SetStockRoundTrip ==
    \A p \in ProductIds :
        LET logs == SetStockLogs(p)
        IN /\ products[p].stock = InitStock(p) + SumQuantityChange(logs)
           /\ \A k \in 1..Len(logs) :
                  logs[k].new_stock
                      = InitStock(p) + SumQuantityChange(SubSeq(logs, 1, k))

\* C29: every reservation in the table has a strictly positive quantity, and
\* no tracked product has more available stock than on-hand stock.
C29_ReservationQuantityPositive ==
    /\ \A r \in stock_reservations : r.quantity > 0
    /\ \A p \in ProductIds :
           Tracked(p) => AvailableStock(p, now) <= products[p].stock

(***************************************************************************)
(* Properties of the order flow (SpecOrder).                               *)
(***************************************************************************)
\* C3: the on-hand stock of a tracked product is never negative, whatever
\* set_stock and pay_order calls have run.
C3_StockNeverNegative ==
    \A p \in ProductIds : Tracked(p) => products[p].stock >= 0

\* the order items of one order, by position in order_items
ItemIndexes(order_id) ==
    {i \in 1..Len(order_items) : order_items[i].order_id = order_id}

\* a "sold" inventory log row for this order item
SoldRowFor(order_id, item) ==
    \E k \in 1..Len(inventory_logs) :
        /\ inventory_logs[k].change_type = "sold"
        /\ inventory_logs[k].product_id = item.product_id
        /\ inventory_logs[k].quantity_change = 0 - item.quantity
        /\ inventory_logs[k].reference_id = Some(order_id)

\* C5: a pay_order that succeeded and decremented the stock of every item of
\* the order has written, for every item, an inventory log row of type sold
\* for the item's quantity that references the order.
C5_PayOrderLogsSold ==
    \A c \in Calls :
        (/\ FinishedWith(c, "pay_order", "some")
         /\ calls[c].decremented > 0
         /\ calls[c].decremented = Cardinality(ItemIndexes(calls[c].order_id)))
        => \A i \in ItemIndexes(calls[c].order_id) :
               SoldRowFor(calls[c].order_id, order_items[i])

\* the order exists, belongs to the user and is pending payment
OwnedAndPending(u, order_id) ==
    /\ order_id \in 1..Len(orders)
    /\ orders[order_id].user_id = u
    /\ orders[order_id].status = "pending_payment"

\* C6: a pay_order call for an order that does not belong to the caller or is
\* not pending payment ends at once with no result and changes no product's
\* stock, no inventory log row and no order.
C6_PayOrderNoOpStep ==
    \A c \in Calls :
        (/\ IsIdle(c)
         /\ calls'[c].op = "pay_order"
         /\ ~OwnedAndPending(calls'[c].user_id, calls'[c].order_id))
        => /\ calls'[c].pc = "done"
           /\ calls'[c].outcome = "none"
           /\ UNCHANGED << products, inventory_logs, orders, order_items >>

C6_PayOrderNoOp == [][C6_PayOrderNoOpStep]_vars

\* C6 happens: the owner's pay_order found the order already paid
C6_Witness ==
    \E c \in Calls :
        /\ FinishedWith(c, "pay_order", "none")
        /\ calls[c].order_id \in 1..Len(orders)
        /\ orders[calls[c].order_id].user_id = calls[c].user_id
        /\ orders[calls[c].order_id].status = "paid"

\* C7: a pay_order that does not succeed has decremented no product's stock.
C7_PayOrderAllOrNothing ==
    \A c \in Calls :
        (/\ calls[c].op = "pay_order"
         /\ calls[c].pc = "done"
         /\ calls[c].outcome # "some")
        => calls[c].decremented = 0

\* C8: a checkout that fails leaves no order row (and so no order items) of
\* its own behind.
C8_FailedCheckoutLeavesNothing ==
    \A c \in Calls :
        (/\ calls[c].op = "create_order_from_cart"
         /\ calls[c].pc = "done"
         /\ calls[c].outcome # "ok")
        => calls[c].value = 0

\* the order items a cart snapshot must become, priced as the product is
ExpectedItems(order_id, snapshot) ==
    [i \in 1..Len(snapshot) |->
        [order_id |-> order_id, product_id |-> snapshot[i].product_id,
         quantity |-> snapshot[i].quantity,
         price |-> products[snapshot[i].product_id].price]]

RECURSIVE SumTotal(_)
SumTotal(items) ==
    IF items = << >> THEN 0
    ELSE Head(items).price * Head(items).quantity + SumTotal(Tail(items))

\* C9: a checkout creates exactly one order, in status pending_payment and
\* owned by the user; when it succeeds, the order's items are exactly the
\* items of the cart it read (product, quantity, price of the product), the
\* order's total is the sum of price x quantity over them, and the user's cart
\* is empty.
C9_CheckoutStep ==
    \A c \in Calls :
        /\ (At(c, "create_order_from_cart", "create_order")
            /\ calls'[c].pc = "add_order_item")
           => /\ Len(orders') = Len(orders) + 1
              /\ calls'[c].order_id = Len(orders')
              /\ orders'[Len(orders')].status = "pending_payment"
              /\ orders'[Len(orders')].user_id = calls[c].user_id
        /\ (At(c, "create_order_from_cart", "clear_cart")
            /\ calls'[c].pc = "done" /\ calls'[c].outcome = "ok")
           => LET o == calls'[c].value
                  expected == ExpectedItems(o, calls[c].cart_items)
              IN /\ o = calls[c].order_id
                 /\ orders' = orders
                 /\ SelectSeq(order_items', LAMBDA r : r.order_id = o) = expected
                 /\ orders'[o].total = SumTotal(expected)
                 /\ cart_items'[calls[c].user_id] = << >>

C9_SuccessfulCheckout == [][C9_CheckoutStep]_vars

\* C9 happens: a checkout of a cart of two items, the first of two units,
\* has succeeded
C9_Witness ==
    \E c \in Calls :
        /\ FinishedWith(c, "create_order_from_cart", "ok")
        /\ Len(calls[c].cart_items) = 2
        /\ calls[c].cart_items[1].quantity = 2
        /\ cart_items["u1"] = << >>

\* the inventory log rows that record a change of a product's on-hand stock
StockLogs(p) ==
    SelectSeq(inventory_logs,
              LAMBDA r : r.product_id = p
                         /\ r.change_type \in {"stock_in", "stock_out", "sold"})

\* C10: for every product the log rows of its stock changes form a chain:
\* the new_stock of each is the previous_stock of the next, and the new_stock
\* of the last is the product's current stock.
C10_LogChain ==
    \A p \in ProductIds :
        LET logs == StockLogs(p)
        IN /\ \A i \in 1..(Len(logs) - 1) :
                  logs[i].new_stock = logs[i + 1].previous_stock
           /\ logs # << >> => logs[Len(logs)].new_stock = products[p].stock

\* C24: a pay_order by a user on an existing order of another user is
\* refused with a forbidden outcome of its own (not the answer given for an
\* order that does not exist).
C24_NonOwnerForbidden ==
    \A c \in Calls :
        (/\ calls[c].op = "pay_order"
         /\ calls[c].pc = "done"
         /\ calls[c].order_id \in 1..Len(orders)
         /\ orders[calls[c].order_id].user_id # calls[c].user_id)
        => calls[c].outcome = "forbidden"

\* C25: checkout turns a cart down for insufficient stock, and pay_order
\* gives up at its stock check on a product that exists, only when the
\* product of the item is tracked (track_inventory = true).
C25_UntrackedStep ==
    \A c \in Calls :
        /\ (/\ At(c, "create_order_from_cart", "validate")
            /\ calls'[c].pc = "done"
            /\ calls'[c].outcome = "insufficient_stock")
           => products[calls[c].cart_items[calls[c].idx].product_id]
                  .track_inventory
        /\ (/\ At(c, "pay_order", "check_stock")
            /\ calls'[c].pc = "done"
            /\ products[calls[c].items[calls[c].idx].product_id].exists)
           => products[calls[c].items[calls[c].idx].product_id]
                  .track_inventory

C25_UntrackedBypassesStock == [][C25_UntrackedStep]_vars

\* C26: of two pay_order calls on the same order, one that has items, at
\* most one reports success, and together they have written the stock of no
\* more order items than the order has.
C26_PaidOnce ==
    \A c, d \in Calls :
        (/\ c # d
         /\ calls[c].op = "pay_order" /\ calls[c].pc = "done"
         /\ calls[d].op = "pay_order" /\ calls[d].pc = "done"
         /\ calls[c].order_id = calls[d].order_id
         /\ ItemIndexes(calls[c].order_id) # {})
        => /\ ~(calls[c].outcome = "some" /\ calls[d].outcome = "some")
           /\ calls[c].decremented + calls[d].decremented
                  <= Cardinality(ItemIndexes(calls[c].order_id))

\* a checkout that has inserted its order and not yet cleared the cart
HoldsOrderOfCart(c, u) ==
    /\ calls[c].op = "create_order_from_cart"
    /\ calls[c].pc \in {"add_order_item", "clear_cart"}
    /\ calls[c].user_id = u

\* C30: two checkouts of the same user never both hold an order made from
\* the user's cart before either of them has cleared it (the cart rows the
\* first one read are among those the second one read).
C30_CartCheckedOutOnce ==
    \A u \in Users : \A c, d \in Calls :
        (c # d /\ HoldsOrderOfCart(c, u)) => ~HoldsOrderOfCart(d, u)

(***************************************************************************)
(* Properties of the payment flow (SpecPayment).                           *)
(***************************************************************************)
\* C4: a later delivery of an event whose id is already stored is recorded
\* (a payment_webhooks row, answer "received") and changes no payment and no
\* order.
C4_RedeliveryStep ==
    \A c \in Calls :
        (/\ calls'[c] # calls[c]
         /\ calls'[c].op = "handle_stripe_webhook"
         /\ "redelivery" \in DOMAIN calls'[c]
         /\ calls'[c].redelivery)
        => /\ payments' = payments
           /\ orders' = orders
           /\ IsIdle(c) => Len(payment_webhooks') = Len(payment_webhooks) + 1
           /\ calls'[c].pc = "done" => calls'[c].outcome = "received"

C4_WebhookIdempotent == [][C4_RedeliveryStep]_vars

\* the payments of an order that are pending or processing
ActivePayments(order_id) ==
    {i \in 1..Len(payments) :
        /\ payments[i].order_id = order_id
        /\ payments[i].status \in {"pending", "processing"}}

\* C12: no order ever has two active (pending or processing) payments.
C12_OneActivePayment ==
    \A o \in OrderIds : Cardinality(ActivePayments(o)) <= 1

\* handler c finishes, in this step, applying an event of the given type
FinishesApplying(c, type) ==
    /\ calls[c].op = "handle_stripe_webhook"
    /\ calls[c].pc \in {"update_payment", "update_order"}
    /\ calls[c].event.type = type
    /\ calls'[c].pc = "done"

\* C13: when the handler has finished applying a succeeded notification, the
\* payment of the intent is succeeded only if its order is paid.
C13_SucceededStep ==
    \A c \in Calls :
        FinishesApplying(c, "payment_intent.succeeded")
        => \A i \in 1..Len(payments') :
               (/\ payments'[i].stripe_payment_intent_id = calls[c].event.intent
                /\ payments'[i].status = "succeeded")
               => orders'[payments'[i].order_id].status = "paid"

C13_SucceededAtomic == [][C13_SucceededStep]_vars

\* C14: the step by which a succeeded notification moves an order to paid
\* lowers the on-hand stock of each product of the order by the ordered
\* quantity.
C14_SucceededDecrementsStep ==
    \A c \in Calls :
        (/\ At(c, "handle_stripe_webhook", "update_order")
         /\ calls'[c] # calls[c]
         /\ calls[c].event.type = "payment_intent.succeeded"
         /\ orders[calls[c].order_id].status # "paid"
         /\ orders'[calls[c].order_id].status = "paid")
        => \A i \in ItemIndexes(calls[c].order_id) :
               products'[order_items[i].product_id].stock
                   = products[order_items[i].product_id].stock
                     - order_items[i].quantity

C14_SucceededDecrementsStock == [][C14_SucceededDecrementsStep]_vars

\* C15: once the handler has acknowledged a webhook it stored, the stored row
\* of that event has processed = true.
C15_WebhookMarkedProcessed ==
    \A c \in Calls :
        FinishedWith(c, "handle_stripe_webhook", "received")
        => \A k \in 1..Len(payment_webhooks) :
               payment_webhooks[k].stripe_event_id = calls[c].event.id
               => payment_webhooks[k].processed

\* the payments of an intent
IntentPayments(intent) ==
    {i \in 1..Len(payments) : payments[i].stripe_payment_intent_id = intent}

\* handler c takes this step while applying a failed notification at pc, and
\* the statement of the step does not fail
AppliesFailed(c, pc) ==
    /\ At(c, "handle_stripe_webhook", pc)
    /\ calls[c].event.type = "payment_intent.payment_failed"
    /\ calls'[c] # calls[c]
    /\ ~calls'[c].error

\* C16: applying a failed notification sets the payments of the intent to
\* failed and then sets their order to pending_payment, touching nothing
\* else; for an unknown intent it changes no payment and no order; and a
\* create_payment_intent for an order that is pending_payment is not turned
\* down for the order's status.
C16_FailedStep ==
    \A c \in Calls :
        /\ AppliesFailed(c, "update_payment")
           => LET hit == IntentPayments(calls[c].event.intent)
              IN /\ orders' = orders
                 /\ Len(payments') = Len(payments)
                 /\ \A i \in 1..Len(payments) :
                        IF i \in hit
                        THEN payments'[i] = [payments[i] EXCEPT !.status = "failed"]
                        ELSE payments'[i] = payments[i]
                 /\ hit = {} <=> calls'[c].pc = "done"
                 /\ hit # {} => \E i \in hit :
                                    calls'[c].order_id = payments[i].order_id
        /\ AppliesFailed(c, "update_order")
           => /\ payments' = payments
              /\ orders' = [orders EXCEPT ![calls[c].order_id].status =
                                              "pending_payment"]
              /\ calls'[c].pc = "done"
        /\ (/\ IsIdle(c)
            /\ calls'[c].op = "create_payment_intent"
            /\ calls'[c].pc = "done"
            /\ calls'[c].outcome \in {"order_not_found", "invalid_order_status"})
           => ~(/\ calls'[c].value \in 1..Len(orders)
                /\ orders[calls'[c].value].status = "pending_payment")

C22_GatewayPayStep ==
    \A c \in Calls :
        /\ (IsIdle(c) /\ calls'[c].op = "create_payment_intent")
           => LET o == IF calls'[c].pc = "done" THEN calls'[c].value
                       ELSE calls'[c].order_id
                  pending == /\ o \in 1..Len(orders)
                             /\ orders[o].status = "pending_payment"
              IN /\ UNCHANGED << payments, orders >>
                 /\ calls'[c].pc \in {"stripe", "done"}
                 /\ calls'[c].pc = "stripe" => pending
                 /\ calls'[c].pc = "done"
                    => /\ calls'[c].outcome \in
                            {"order_not_found", "invalid_order_status",
                             "invalid_amount"}
                       /\ calls'[c].outcome = "order_not_found"
                          <=> o \notin 1..Len(orders)
                       /\ calls'[c].outcome = "invalid_order_status"
                          <=> (o \in 1..Len(orders) /\ ~pending)
        /\ (At(c, "create_payment_intent", "stripe") /\ calls'[c] # calls[c])
           => /\ UNCHANGED << payments, orders >>
              /\ \/ calls'[c].pc = "create_payment"
                 \/ /\ calls'[c].pc = "done"
                    /\ calls'[c].outcome = "stripe_api_error"
        /\ (/\ At(c, "create_payment_intent", "create_payment")
            /\ calls'[c].pc = "update_status")
           => /\ orders' = orders
              /\ Len(payments') = Len(payments) + 1
              /\ SubSeq(payments', 1, Len(payments)) = payments
              /\ payments'[Len(payments')].order_id = calls[c].order_id
              /\ payments'[Len(payments')].status = "pending"
        /\ (/\ At(c, "create_payment_intent", "update_status")
            /\ calls'[c].pc = "done"
            /\ calls'[c].outcome = "ok")
           => /\ payments' = payments
              /\ orders' = [orders EXCEPT ![calls[c].order_id].status =
                                              "payment_processing"]

C23_RefundStep ==
    \A c \in Calls :
        /\ (calls'[c] # calls[c] /\ calls'[c].op = "refund_payment")
           => UNCHANGED << products, stock_reservations, inventory_logs >>
        /\ (IsIdle(c) /\ calls'[c].op = "refund_payment")
           => /\ UNCHANGED << payments, orders >>
              /\ IF calls'[c].pc = "done"
                 THEN /\ calls'[c].outcome = "payment_not_found"
                      /\ calls'[c].value \notin 1..Len(payments)
                 ELSE /\ calls'[c].pc = "stripe"
                      /\ calls'[c].payment_id \in 1..Len(payments)
                      /\ calls'[c].order_id
                             = payments[calls'[c].payment_id].order_id
        /\ (At(c, "refund_payment", "stripe") /\ calls'[c] # calls[c])
           => /\ UNCHANGED << payments, orders >>
              /\ \/ calls'[c].pc = "update_payment"
                 \/ /\ calls'[c].pc = "done"
                    /\ calls'[c].outcome = "stripe_api_error"
        /\ (/\ At(c, "refund_payment", "update_payment")
            /\ calls'[c].pc = "update_order")
           => /\ orders' = orders
              /\ payments' = [payments EXCEPT
                                ![calls[c].payment_id].status = "canceled"]
        /\ (/\ At(c, "refund_payment", "update_order")
            /\ calls'[c].pc = "done"
            /\ calls'[c].outcome = "ok")
           => /\ payments' = payments
              /\ orders' = [orders EXCEPT ![calls[c].order_id].status =
                                              "refunded"]

SettledStatuses ==
    {"paid", "processing", "shipped", "delivered", "cancelled", "refunded"}

\* C27: the order statement of a succeeded or failed notification leaves the
\* orders as they are when the order of the payment is already paid,
\* processing, shipped, delivered, cancelled or refunded.
C27_NotificationStep ==
    \A c \in Calls :
        (/\ At(c, "handle_stripe_webhook", "update_order")
         /\ calls'[c] # calls[c]
         /\ orders[calls[c].order_id].status \in SettledStatuses)
        => orders' = orders

C27_NotificationOnlyWhenProcessing == [][C27_NotificationStep]_vars

\* OrderStatus: the nine values of the enumeration, as to_string writes them
OrderStatuses ==
    {"cart", "pending_payment", "payment_processing", "paid", "processing",
     "shipped", "delivered", "cancelled", "refunded"}

\* C28: the status of every order is one of the nine values of OrderStatus.
C28_StatusEnumerated ==
    \A o \in 1..Len(orders) : orders[o].status \in OrderStatuses

====
